---------------------------- MODULE Spec2Model ----------------------------
(***************************************************************************)
(* The peer-session state machine of go-diameter (package diam/sm).        *)
(*                                                                         *)
(* sm.go wraps a diam.ServeMux: New installs the built-in CER and DWR      *)
(* handlers, Handle/HandleFunc/HandleIdx register host handlers behind     *)
(* the handshakeOK gate and refuse the reserved commands, ServeDIAM        *)
(* dispatches an inbound message through the mux.  The mux itself, the     *)
(* built-in handlers handleCER/handleDWR and smpeer live in other files   *)
(* of the repository; they are modelled from the written specification.   *)
(*                                                                         *)
(* Three specifications share the state: Spec runs a constructed           *)
(* StateMachine, SpecSettings runs New on the settings a caller passes,    *)
(* SpecApps runs PrepareSupportedApps on a dictionary and a filter list.   *)
(***************************************************************************)
EXTENDS Naturals, Sequences, FiniteSets

(***************************************************************************)
(* Bounds of the model.                                                    *)
(***************************************************************************)
\* total number of inbound messages dispatched, over all connections
MaxMsgs == 2

\* applications in the dictionary handed to PrepareSupportedApps
MaxApps == 2

\* entries in the filter list handed to PrepareSupportedApps
MaxFilters == 2

\* addresses in Settings.HostIPAddresses as the caller passes it
MaxAddrs == 2

(***************************************************************************)
(* Constants of the program.                                               *)
(***************************************************************************)
\* capacity of the mux's error channel (diam.NewServeMux)
ErrChanCap == 1

\* sm.hsNotifyc made with a buffer of one: make(chan diam.Conn, 1)
HsChanCapBuffered == 0 + 1

\* capacity of sm.hsNotifyc: New makes it with make(chan diam.Conn)
HsChanCap == 0

(***************************************************************************)
(* Values.                                                                 *)
(***************************************************************************)
Conns == {"c1", "c2"}

\* handlers a host application may pass to the registration surface: the
\* host registers h1 by command name and h2 by command index
HostHandlers == {"h1", "h2"}

NameHandlers == {"h1"}

IdxHandlers == {"h2"}

\* diam.CommandIndex{AppID, Code, Request}
CmdIdx(a, code, req) == [AppID |-> a, Code |-> code, Request |-> req]

baseCERIdx == CmdIdx(0, "CapabilitiesExchange", TRUE)

baseCEAIdx == CmdIdx(0, "CapabilitiesExchange", FALSE)

baseDWRIdx == CmdIdx(0, "DeviceWatchdog", TRUE)

rarIdx == CmdIdx(0, "ReAuth", TRUE)

AppIDs == {0, 1}

Codes == {"CapabilitiesExchange", "DeviceWatchdog", "ReAuth"}

AllIdx == [AppID : AppIDs, Code : Codes, Request : BOOLEAN]

AllNames == {"CER", "CEA", "DWR", "DWA", "RAR", "RAA"}

\* the commands the host tries to register, by name and by index
RegNames == {"CER", "CEA", "DWR", "RAR"}

RegIdx == {baseCERIdx, baseCEAIdx, baseDWRIdx, rarIdx}

\* inbound messages: header fields plus whether the mandatory identity
\* AVPs (Origin-Host, Origin-Realm) are present
Msg(a, code, req, ok) == [AppID |-> a, Code |-> code, Request |-> req, wf |-> ok]

Msgs ==
    { Msg(0, "CapabilitiesExchange", TRUE, ok) : ok \in BOOLEAN }
    \cup { Msg(0, "DeviceWatchdog", TRUE, TRUE),
           Msg(0, "ReAuth", TRUE, TRUE),
           Msg(0, "CapabilitiesExchange", FALSE, TRUE) }

NoMsg == Msg(0, "-", FALSE, FALSE)

NoIdx == CmdIdx(0, "-", FALSE)

\* an entry of the routing table: the handler and whether New/HandleFunc/
\* HandleIdx wrapped it in handshakeOK
Entry(h, g) == [h |-> h, gated |-> g]

NoEntry == Entry("none", FALSE)


(***************************************************************************)
(* State.                                                                  *)
(***************************************************************************)
VARIABLES
    muxName,    \* sm.mux: routing entries registered by command name
    muxIdx,     \* sm.mux: routing entries registered by CommandIndex
    errc,       \* sm.mux's error channel: the reports queued in it
    peerCtx,    \* per connection: the context holds a Peer Context (VERIFIED)
    wire,       \* per connection: the answers written to it, counted by kind
    pending,    \* per connection: CER handlers that answered and have not yet marked
    hsBuf,      \* sm.hsNotifyc: the connections queued in the channel
    hsWaiting,  \* a goroutine is blocked receiving from HandshakeNotify()
    hsGot,      \* per connection: events received from sm.hsNotifyc
    hsDropped,  \* per connection: notifications dropped for want of a receiver
    blocked,    \* callers stuck for ever in a channel send
    nmsgs,      \* inbound messages dispatched so far
    last,       \* what the last operation did
    settings,   \* the Settings New works on (it holds a pointer to them)
    passed,     \* the Settings as the caller filled them in
    built,      \* New has returned
    dApps,      \* d.Apps(): the applications of the dictionary, in its order
    supportedApps,          \* the filter list handed to PrepareSupportedApps
    appFilters,             \* PrepareSupportedApps: the compiled filters
    appIdx,                 \* PrepareSupportedApps: position of its loop in dApps
    locallySupportedApps,   \* PrepareSupportedApps: the result built so far
    pc                      \* PrepareSupportedApps: "start", "loop" or "done"

smVars == <<muxName, muxIdx, errc, peerCtx, wire, pending, hsBuf, hsWaiting,
            hsGot, hsDropped, blocked, nmsgs, last>>

cfgVars == <<settings, passed, built>>

appVars ==
    <<dApps, supportedApps, appFilters, appIdx, locallySupportedApps, pc>>

vars == <<smVars, cfgVars, appVars>>

(***************************************************************************)
(* Reports, effects of a handler, and the record of the last operation.    *)
(***************************************************************************)
\* diam.ErrorReport: what was refused or what failed
Report(kind, cmd, idx) == [kind |-> kind, cmd |-> cmd, idx |-> idx]

\* one invocation of a handler function: f(c, m)
Call(h, c, m) == [h |-> h, c |-> c, m |-> m]

\* what serving one message did: the handler functions invoked, the answer
\* written to the connection, the reports passed to sm.Error, and whether a
\* handshake is left to complete
NoEffect == [calls |-> <<>>, answer |-> "none", reps |-> <<>>, hs |-> FALSE]

NoLast ==
    [op |-> "New", c |-> "-", m |-> NoMsg, cmd |-> "-", idx |-> NoIdx,
     h |-> "none", via |-> "none", gated |-> FALSE, ctx |-> FALSE,
     calls |-> <<>>, answer |-> "none", reps |-> <<>>, room |-> FALSE,
     rcv |-> FALSE, notified |-> "none", wrote |-> FALSE]

(***************************************************************************)
(* The reserved-command guard and the registration surface.                *)
(***************************************************************************)
\* the case list of HandleFunc's switch
ReservedName(cmd) == cmd \in {"CER", "CEA", "DWR"}

\* the case list of HandleIdx's switch
ReservedIdx(idx) == idx \in {baseCERIdx, baseCEAIdx, baseDWRIdx}

\* handshakeOK(handler): the handler wrapped in the gate
handshakeOK(h) == Entry(h, TRUE)

\* New with the CER handler wrapped in the gate like the DWR handler
NewMuxNameGatedCER ==
    [n \in AllNames |->
        CASE n = "CER" -> handshakeOK("handleCER")
          [] n = "DWR" -> handshakeOK("handleDWR")
          [] OTHER -> NoEntry]

\* New: the name entries sm.mux.Handle installs
NewMuxName ==
    [n \in AllNames |->
        CASE n = "CER" -> Entry("handleCER", FALSE)
          [] n = "DWR" -> handshakeOK("handleDWR")
          [] OTHER -> NoEntry]

\* New with the handlers of its two HandleIdx calls exchanged
NewMuxIdxSwapped ==
    [i \in AllIdx |->
        CASE i = baseCERIdx -> Entry("handleDWR", FALSE)
          [] i = baseDWRIdx -> Entry("handleCER", FALSE)
          [] OTHER -> NoEntry]

\* New: the index entries sm.mux.HandleIdx installs
NewMuxIdx ==
    [i \in AllIdx |->
        CASE i = baseCERIdx -> Entry("handleCER", FALSE)
          [] i = baseDWRIdx -> Entry("handleDWR", FALSE)
          [] OTHER -> NoEntry]

\* HandleFunc without its switch: every command is stored
HandleFuncTableNoGuard(tbl, cmd, h) == [tbl EXCEPT ![cmd] = handshakeOK(h)]

\* HandleFunc: the name table after the call
HandleFuncTable(tbl, cmd, h) ==
    IF ReservedName(cmd) THEN tbl ELSE [tbl EXCEPT ![cmd] = handshakeOK(h)]

\* HandleFunc: the reports it passes to sm.Error
HandleFuncReports(cmd) ==
    IF ReservedName(cmd) THEN <<Report("overwrite", cmd, NoIdx)>> ELSE <<>>

\* HandleIdx: the index table after the call
HandleIdxTable(tbl, idx, h) ==
    IF ReservedIdx(idx) THEN tbl ELSE [tbl EXCEPT ![idx] = handshakeOK(h)]

\* HandleIdx refusing a reserved index without a call of sm.Error
HandleIdxReportsNone(idx) == <<>>

\* HandleIdx: the reports it passes to sm.Error
HandleIdxReports(idx) ==
    IF ReservedIdx(idx) THEN <<Report("overwrite", "-", idx)>> ELSE <<>>

(***************************************************************************)
(* The error channel.                                                      *)
(***************************************************************************)
\* mux.Error: a send that never waits; the report is queued when the
\* channel has room and dropped otherwise
MuxError(q, reps) ==
    [q |-> IF reps # <<>> /\ Len(q) < ErrChanCap THEN Append(q, reps[1]) ELSE q,
     blocked |-> FALSE]

\* sm.Error sending on the channel itself and waiting for room
ErrorBlocking(q, reps) ==
    [q |-> IF reps # <<>> /\ Len(q) < ErrChanCap THEN Append(q, reps[1]) ELSE q,
     blocked |-> reps # <<>> /\ Len(q) >= ErrChanCap]

\* sm.Error hands the report to the mux
Error(q, reps) == MuxError(q, reps)

(***************************************************************************)
(* The header of a message, as the router reads it.                        *)
(***************************************************************************)
\* the dictionary's short name of a message's command, with R or A
CmdName(m) ==
    CASE m.Code = "CapabilitiesExchange" -> IF m.Request THEN "CER" ELSE "CEA"
      [] m.Code = "DeviceWatchdog" -> IF m.Request THEN "DWR" ELSE "DWA"
      [] OTHER -> IF m.Request THEN "RAR" ELSE "RAA"

\* the CommandIndex of a message's header
IdxOf(m) == CmdIdx(m.AppID, m.Code, m.Request)

(***************************************************************************)
(* The built-in handlers and the gate.                                     *)
(***************************************************************************)
\* handleCER, up to the answer: a request that carries Origin-Host and
\* Origin-Realm is answered with success, whether or not the connection is
\* already VERIFIED, and goes on to mark the connection; one that lacks
\* them is answered with a failure result code and reported
HandleCER(c, m) ==
    IF m.wf
    THEN [calls |-> <<Call("handleCER", c, m)>>, answer |-> "Success",
          reps |-> <<>>, hs |-> TRUE]
    ELSE [calls |-> <<Call("handleCER", c, m)>>, answer |-> "Failure",
          reps |-> <<Report("handshake", "CER", NoIdx)>>, hs |-> FALSE]

\* handleDWR: answers the watchdog with success
HandleDWR(c, m) ==
    [calls |-> <<Call("handleDWR", c, m)>>, answer |-> "Success",
     reps |-> <<>>, hs |-> FALSE]

\* a handler function f called as f(c, m): a built-in handler, or a host
\* handler, of which only the invocation is known
RunHandler(h, c, m) ==
    CASE h = "handleCER" -> HandleCER(c, m)
      [] h = "handleDWR" -> HandleDWR(c, m)
      [] h \in HostHandlers -> [NoEffect EXCEPT !.calls = <<Call(h, c, m)>>]
      [] OTHER -> NoEffect

\* the gate without its test: f(c, m) whatever the context holds
handshakeOK_AlwaysServes(f, ctx, c, m) == RunHandler(f, c, m)

\* the gate with its test inverted: f(c, m) only without a Peer Context
handshakeOK_Inverted(f, ctx, c, m) ==
    IF ~ctx THEN RunHandler(f, c, m) ELSE NoEffect

\* the gate reporting the message of an unverified peer to sm.Error
handshakeOK_Reports(f, ctx, c, m) ==
    IF ctx THEN RunHandler(f, c, m)
    ELSE [NoEffect EXCEPT !.reps = <<Report("unverified", CmdName(m), NoIdx)>>]

\* handshakeOK.ServeDIAM: f(c, m) only when the connection's context holds
\* a Peer Context
handshakeOK_ServeDIAM(f, ctx, c, m) ==
    IF ctx THEN RunHandler(f, c, m) ELSE NoEffect

\* the gate reading one flag shared by all connections
FromContextOfAny(ctxs, c) == \E d \in DOMAIN ctxs : ctxs[d]

\* smpeer.FromContext(c.Context()): whether the context of this connection
\* holds a Peer Context
FromContext(ctxs, c) == ctxs[c]

\* Handler.ServeDIAM of a routing entry
ServeEntry(e, ctx, c, m) ==
    IF e.gated THEN handshakeOK_ServeDIAM(e.h, ctx, c, m)
    ELSE RunHandler(e.h, c, m)

(***************************************************************************)
(* The router.                                                             *)
(***************************************************************************)
\* mux.ServeDIAM: the entries that may resolve a message, its index entry
\* and its name entry; which of the two the mux prefers is not fixed here
Routes(names, idxs, m) ==
    LET byIdx == IF idxs[IdxOf(m)] # NoEntry
                 THEN {<<"idx", idxs[IdxOf(m)]>>} ELSE {}
        byName == IF names[CmdName(m)] # NoEntry
                  THEN {<<"name", names[CmdName(m)]>>} ELSE {}
    IN  IF byIdx \cup byName = {} THEN {<<"none", NoEntry>>}
        ELSE byIdx \cup byName

\* the answer written to a connection, counted by kind
WriteAnswer(w, m, answer) ==
    CASE answer = "none" -> w
      [] m.Code = "CapabilitiesExchange" /\ answer = "Success" ->
            [w EXCEPT !.ceaOK = @ + 1]
      [] m.Code = "CapabilitiesExchange" ->
            [w EXCEPT !.ceaFail = @ + 1]
      [] OTHER -> [w EXCEPT !.dwa = @ + 1]

(***************************************************************************)
(* Settings: the host addresses.                                           *)
(***************************************************************************)
\* datatype.Address is a byte string; the empty one is an unset field
Addresses == {<<10>>, <<10, 1>>, <<127>>}

\* all sequences over S of length at most n
SeqsUpTo(S, n) == UNION {[1..k -> S] : k \in 0..n}

\* a list argument: Go tells a nil slice from an empty one
NilList == [nil |-> TRUE, list |-> <<>>]

List(l) == [nil |-> FALSE, list |-> l]

\* Settings, the fields New reads
Settings(addr, addrs, apps) ==
    [HostIPAddress |-> addr, HostIPAddresses |-> addrs, SupportedApps |-> apps]

\* New copying the deprecated field over whatever the list holds
HostIPAddressesAlways(st) ==
    IF Len(st.HostIPAddress) > 0 THEN <<st.HostIPAddress>> ELSE st.HostIPAddresses

\* New: settings.HostIPAddresses after the promotion of the deprecated
\* settings.HostIPAddress
HostIPAddresses(st) ==
    IF Len(st.HostIPAddresses) = 0 /\ Len(st.HostIPAddress) > 0
    THEN <<st.HostIPAddress>>
    ELSE st.HostIPAddresses

(***************************************************************************)
(* The dictionary and the application filters.  Strings that the code     *)
(* splits or compares are sequences of characters.                         *)
(***************************************************************************)
\* dict.Vendor, the fields read
Vendor(id, name) == [ID |-> id, Name |-> name]

\* dict.App, the fields read
App(id, name, type, vendor) ==
    [ID |-> id, Name |-> name, Type |-> type, Vendor |-> vendor]

\* the applications a dictionary is drawn from: the base application
\* (ID 0), one without vendor, one with one vendor, one with two vendors
\* whose name reads like the ID of another
DictApps ==
    { App(0, <<"4">>, "auth", <<>>),
      App(1, <<"N">>, "acct", <<>>),
      App(4, <<"C">>, "auth", <<Vendor(10, <<"T">>)>>),
      App(12, <<"4">>, "auth", <<Vendor(20, <<"U">>), Vendor(10, <<"T">>)>>) }

\* the filter strings a filter list is drawn from: "1", "T.1", "4", "T.4",
\* "U.4", "12" and "U.4.1"
FilterStrings ==
    { <<"1">>, <<"T", ".", "1">>, <<"4">>, <<"T", ".", "4">>,
      <<"U", ".", "4">>, <<"1", "2">>, <<"U", ".", "4", ".", "1">> }

\* dict.Default as New reads it
DictDefault == <<App(0, <<"4">>, "auth", <<>>),
                 App(4, <<"C">>, "auth", <<Vendor(10, <<"T">>)>>)>>

RECURSIVE SplitFrom(_, _, _, _)
\* strings.Split, from the characters left, the part being read and the
\* parts read
SplitFrom(s, sep, cur, parts) ==
    IF s = <<>> THEN Append(parts, cur)
    ELSE IF Head(s) = sep
         THEN SplitFrom(Tail(s), sep, <<>>, Append(parts, cur))
         ELSE SplitFrom(Tail(s), sep, Append(cur, Head(s)), parts)

\* strings.Split(s, sep) for a separator of one character
Split(s, sep) == SplitFrom(s, sep, <<>>, <<>>)

DecimalDigits == <<"0", "1", "2", "3", "4", "5", "6", "7", "8", "9">>

RECURSIVE Itoa(_)
\* strconv.Itoa of a number that is not negative
Itoa(n) ==
    IF n < 10 THEN <<DecimalDigits[n + 1]>>
    ELSE Itoa(n \div 10) \o <<DecimalDigits[(n % 10) + 1]>>

\* a map assignment that keeps the value a key already has
MapPutIfAbsent(m, k, v) ==
    [x \in (DOMAIN m) \cup {k} |-> IF x \in DOMAIN m THEN m[x] ELSE v]

\* a map assignment that drops every other key
MapPutAlone(m, k, v) == [x \in {k} |-> v]

\* filterApps[k] = v
MapPut(m, k, v) ==
    [x \in (DOMAIN m) \cup {k} |-> IF x = k THEN v ELSE m[x]]

\* the map of computeAppFilters that is nil
NilMap == [nil |-> TRUE, m |-> <<>>]

RECURSIVE rangeSupportedApps(_, _)
\* computeAppFilters: its loop over the filter list
rangeSupportedApps(list, filterApps) ==
    IF list = <<>> THEN filterApps
    ELSE LET parts == Split(Head(list), ".")
         IN  rangeSupportedApps(Tail(list),
                IF Len(parts) > 1
                THEN MapPut(filterApps, parts[2], parts[1])
                ELSE MapPut(filterApps, parts[1], <<>>))

\* computeAppFilters taking the empty list for the nil one
computeAppFiltersEmptyIsNil(sa) ==
    IF sa.nil \/ sa.list = <<>> THEN NilMap
    ELSE [nil |-> FALSE, m |-> rangeSupportedApps(sa.list, <<>>)]

\* computeAppFilters
computeAppFilters(sa) ==
    IF sa.nil THEN NilMap
    ELSE [nil |-> FALSE, m |-> rangeSupportedApps(sa.list, <<>>)]

\* the orders in which a range loop may visit the keys of a map
Orders(keys) ==
    { o \in [1..Cardinality(keys) -> keys] :
        \A i, j \in 1..Cardinality(keys) : i # j => o[i] # o[j] }

\* the key test matching the ID only
KeyMatchesIDOnly(app, idName) == Itoa(app.ID) = idName

\* appAllowedByFilters: the key of a filter is the application's ID in
\* decimal or its name
KeyMatches(app, idName) == Itoa(app.ID) = idName \/ app.Name = idName

\* appAllowedByFilters: the filter asks for no vendor, or for the first
\* vendor of the application
VendorMatches(app, fVendor) ==
    fVendor = <<>> \/ (Len(app.Vendor) # 0 /\ app.Vendor[1].Name = fVendor)

\* the loop body giving up at the first filter whose vendor differs
filterBodyStopsAtMismatch(app, idName, fVendor) ==
    IF ~KeyMatches(app, idName) THEN "continue"
    ELSE IF ~VendorMatches(app, fVendor) THEN "return false"
    ELSE "return true"

\* appAllowedByFilters: the body of its loop, for one entry of the map
filterBody(app, idName, fVendor) ==
    IF ~KeyMatches(app, idName) THEN "continue"
    ELSE IF ~VendorMatches(app, fVendor) THEN "continue"
    ELSE "return true"

RECURSIVE rangeAppFilters(_, _, _)
\* appAllowedByFilters: its loop, visiting the keys in the given order
rangeAppFilters(app, m, order) ==
    IF order = <<>> THEN FALSE
    ELSE LET r == filterBody(app, Head(order), m[Head(order)])
         IN  IF r = "continue" THEN rangeAppFilters(app, m, Tail(order))
             ELSE r = "return true"

\* appAllowedByFilters
appAllowedByFilters(app, filters, order) ==
    IF filters.nil THEN TRUE ELSE rangeAppFilters(app, filters.m, order)

RECURSIVE rangeVendor(_, _)
\* PrepareSupportedApps: the loop over app.Vendor, each turn assigning
\* addApp.Vendor
rangeVendor(vendors, v) ==
    IF vendors = <<>> THEN v ELSE rangeVendor(Tail(vendors), Head(vendors).ID)

\* PrepareSupportedApps: the SupportedApp made for an application
addApp(app) ==
    [ID |-> app.ID, AppType |-> app.Type, Vendor |-> rangeVendor(app.Vendor, 0)]

\* PrepareSupportedApps: the body of its loop, for one application
loopBody(out, app, filters, order) ==
    IF app.ID = 0 \/ ~appAllowedByFilters(app, filters, order) THEN out
    ELSE Append(out, addApp(app))

RECURSIVE rangeApps(_, _, _, _)
\* PrepareSupportedApps: its loop over d.Apps()
rangeApps(apps, out, filters, order) ==
    IF apps = <<>> THEN out
    ELSE rangeApps(Tail(apps), loopBody(out, Head(apps), filters, order),
                   filters, order)

\* PrepareSupportedApps(d, supportedApps), the map being visited in the
\* given order
PrepareSupportedApps(apps, sa, order) ==
    rangeApps(apps, <<>>, computeAppFilters(sa), order)

(***************************************************************************)
(* Init: the state New leaves, with no connection verified.                *)
(***************************************************************************)
\* the StateMachine New returns
InitSM ==
    /\ muxName = NewMuxName
    /\ muxIdx = NewMuxIdx
    /\ errc = <<>>
    /\ peerCtx = [c \in Conns |-> FALSE]
    /\ wire = [c \in Conns |-> [ceaOK |-> 0, ceaFail |-> 0, dwa |-> 0]]
    /\ pending = [c \in Conns |-> 0]
    /\ hsBuf = <<>>
    /\ hsWaiting = FALSE
    /\ hsGot = [c \in Conns |-> 0]
    /\ hsDropped = [c \in Conns |-> 0]
    /\ blocked = {}
    /\ nmsgs = 0
    /\ last = NoLast

\* settings without host address and without filter list, after New
InitCfgBuilt ==
    /\ settings = Settings(<<>>, <<>>, NilList)
    /\ passed = settings
    /\ built = TRUE

\* PrepareSupportedApps after it returned, for an empty dictionary
InitAppsDone ==
    /\ dApps = <<>>
    /\ supportedApps = NilList
    /\ appFilters = NilMap
    /\ appIdx = 1
    /\ locallySupportedApps = <<>>
    /\ pc = "done"

Init ==
    /\ InitSM
    /\ InitCfgBuilt
    /\ InitAppsDone

(***************************************************************************)
(* The registration surface.                                               *)
(***************************************************************************)
\* HandleFunc(cmd, handler), called by the host
HandleFuncBody(op, cmd, h) ==
    LET reps == HandleFuncReports(cmd)
        sent == Error(errc, reps)
    IN  /\ "host" \notin blocked
        /\ muxName' = HandleFuncTable(muxName, cmd, h)
        /\ errc' = sent.q
        /\ blocked' = IF sent.blocked THEN blocked \cup {"host"} ELSE blocked
        /\ last' = [NoLast EXCEPT !.op = op, !.cmd = cmd,
                                  !.reps = reps,
                                  !.room = Len(errc) < ErrChanCap]
        /\ UNCHANGED <<muxIdx, peerCtx, wire, pending, hsBuf, hsWaiting,
                       hsGot, hsDropped, nmsgs,
                   cfgVars, appVars>>

HandleFunc(cmd, h) == HandleFuncBody("HandleFunc", cmd, h)

\* Handle(cmd, handler) is HandleFunc(cmd, handler.ServeDIAM)
Handle(cmd, h) == HandleFunc(cmd, h)

\* HandleIdx(cmd, handler), called by the host
HandleIdx(idx, h) ==
    LET reps == HandleIdxReports(idx)
        sent == Error(errc, reps)
    IN  /\ "host" \notin blocked
        /\ muxIdx' = HandleIdxTable(muxIdx, idx, h)
        /\ errc' = sent.q
        /\ blocked' = IF sent.blocked THEN blocked \cup {"host"} ELSE blocked
        /\ last' = [NoLast EXCEPT !.op = "HandleIdx", !.idx = idx,
                                  !.reps = reps,
                                  !.room = Len(errc) < ErrChanCap]
        /\ UNCHANGED <<muxName, peerCtx, wire, pending, hsBuf, hsWaiting,
                       hsGot, hsDropped, nmsgs,
                   cfgVars, appVars>>

(***************************************************************************)
(* Dispatch.                                                               *)
(***************************************************************************)
\* sm.ServeDIAM(c, m): the mux resolves the message and serves it
ServeDIAM(c, m) ==
    /\ nmsgs < MaxMsgs
    /\ c \notin blocked
    /\ \E r \in Routes(muxName, muxIdx, m) :
        LET e == r[2]
            eff == ServeEntry(e, FromContext(peerCtx, c), c, m)
            sent == Error(errc, eff.reps)
        IN  /\ wire' = [wire EXCEPT ![c] = WriteAnswer(@, m, eff.answer)]
            /\ errc' = sent.q
            /\ blocked' = IF sent.blocked THEN blocked \cup {c} ELSE blocked
            /\ pending' = [pending EXCEPT ![c] = IF eff.hs THEN @ + 1 ELSE @]
            /\ last' = [NoLast EXCEPT !.op = "ServeDIAM", !.c = c, !.m = m,
                                      !.h = e.h, !.via = r[1],
                                      !.gated = e.gated, !.ctx = peerCtx[c],
                                      !.calls = eff.calls,
                                      !.answer = eff.answer,
                                      !.reps = eff.reps,
                                      !.room = Len(errc) < ErrChanCap]
    /\ nmsgs' = nmsgs + 1
    /\ UNCHANGED <<muxName, muxIdx, peerCtx, hsBuf, hsWaiting, hsGot,
                   hsDropped,
                   cfgVars, appVars>>

\* the send on sm.hsNotifyc made without a default case: the sender waits
\* for a receiver
HsNotifyBlocking(waiting, buf) ==
    IF waiting THEN "delivered"
    ELSE IF Len(buf) < HsChanCap THEN "queued" ELSE "blocked"

\* the send on sm.hsNotifyc: it is taken by a receiver that is waiting,
\* queued while the channel's buffer has room, and dropped otherwise; the
\* sender never waits
HsNotify(waiting, buf) ==
    IF waiting THEN "delivered"
    ELSE IF Len(buf) < HsChanCap THEN "queued" ELSE "dropped"

\* handleCER writing the Peer Context on every request it answers
FirstHandshakeAlways(ctx) == TRUE

\* handleCER marks and notifies only a connection that holds no Peer
\* Context yet
FirstHandshake(ctx) == ~ctx

\* handleCER, after the answer: in one step, a connection that holds no
\* Peer Context gets one and is sent on sm.hsNotifyc; one that holds it
\* already is left as it is
CERFinish(c) ==
    /\ pending[c] > 0
    /\ pending' = [pending EXCEPT ![c] = @ - 1]
    /\ LET first == FirstHandshake(peerCtx[c])
           sent == IF first THEN HsNotify(hsWaiting, hsBuf) ELSE "none"
       IN  /\ peerCtx' = [peerCtx EXCEPT ![c] = TRUE]
           /\ hsGot' = [hsGot EXCEPT ![c] = IF sent = "delivered" THEN @ + 1 ELSE @]
           /\ hsDropped' = [hsDropped EXCEPT ![c] = IF sent = "dropped" THEN @ + 1 ELSE @]
           /\ hsBuf' = IF sent = "queued" THEN Append(hsBuf, c) ELSE hsBuf
           /\ hsWaiting' = IF sent = "delivered" THEN FALSE ELSE hsWaiting
           /\ blocked' = IF sent = "blocked" THEN blocked \cup {c} ELSE blocked
           /\ last' = [NoLast EXCEPT !.op = "CERFinish", !.c = c,
                                     !.ctx = peerCtx[c], !.rcv = hsWaiting,
                                     !.notified = sent, !.wrote = first]
    /\ UNCHANGED <<muxName, muxIdx, errc, wire, nmsgs,
                   cfgVars, appVars>>

(***************************************************************************)
(* The consumers of the two channels.                                      *)
(***************************************************************************)
\* a goroutine receives from HandshakeNotify(): it takes a queued
\* connection, or waits for the next send
HsRecv ==
    /\ ~hsWaiting
    /\ hsWaiting' = (hsBuf = <<>>)
    /\ hsBuf' = IF hsBuf = <<>> THEN hsBuf ELSE Tail(hsBuf)
    /\ hsGot' = IF hsBuf = <<>> THEN hsGot
                ELSE [hsGot EXCEPT ![Head(hsBuf)] = @ + 1]
    /\ last' = [NoLast EXCEPT !.op = "HsRecv"]
    /\ UNCHANGED <<muxName, muxIdx, errc, peerCtx, wire, pending, hsDropped,
                   blocked, nmsgs,
                   cfgVars, appVars>>

\* a goroutine receives one report from ErrorReports()
ErrRecv ==
    /\ errc # <<>>
    /\ errc' = Tail(errc)
    /\ last' = [NoLast EXCEPT !.op = "ErrRecv", !.reps = <<Head(errc)>>]
    /\ UNCHANGED <<muxName, muxIdx, peerCtx, wire, pending, hsBuf, hsWaiting,
                   hsGot, hsDropped, blocked, nmsgs,
                   cfgVars, appVars>>

Next ==
    \/ \E cmd \in RegNames, h \in NameHandlers : Handle(cmd, h)
    \/ \E cmd \in RegNames, h \in NameHandlers : HandleFunc(cmd, h)
    \/ \E idx \in RegIdx, h \in IdxHandlers : HandleIdx(idx, h)
    \/ \E c \in Conns, m \in Msgs : ServeDIAM(c, m)
    \/ \E c \in Conns : CERFinish(c)
    \/ HsRecv
    \/ ErrRecv

Spec == Init /\ [][Next]_vars

(***************************************************************************)
(* SpecSettings: New, run on the settings a caller passes.                 *)
(***************************************************************************)
\* before New: no routing entry exists yet
InitNoSM ==
    /\ muxName = [n \in AllNames |-> NoEntry]
    /\ muxIdx = [i \in AllIdx |-> NoEntry]
    /\ errc = <<>>
    /\ peerCtx = [c \in Conns |-> FALSE]
    /\ wire = [c \in Conns |-> [ceaOK |-> 0, ceaFail |-> 0, dwa |-> 0]]
    /\ pending = [c \in Conns |-> 0]
    /\ hsBuf = <<>>
    /\ hsWaiting = FALSE
    /\ hsGot = [c \in Conns |-> 0]
    /\ hsDropped = [c \in Conns |-> 0]
    /\ blocked = {}
    /\ nmsgs = 0
    /\ last = [NoLast EXCEPT !.op = "none"]

InitSettings ==
    /\ InitNoSM
    /\ \E addr \in Addresses \cup {<<>>},
          addrs \in SeqsUpTo(Addresses, MaxAddrs),
          apps \in {NilList, List(<<>>), List(<< <<"4">> >>)} :
            settings = Settings(addr, addrs, apps)
    /\ passed = settings
    /\ built = FALSE
    /\ dApps = DictDefault
    /\ supportedApps = settings.SupportedApps
    /\ appFilters = NilMap
    /\ appIdx = 1
    /\ locallySupportedApps = <<>>
    /\ pc = "start"

\* New(settings)
New ==
    /\ ~built
    /\ settings' = [settings EXCEPT !.HostIPAddresses = HostIPAddresses(settings)]
    /\ muxName' = NewMuxName
    /\ muxIdx' = NewMuxIdx
    /\ hsBuf' = <<>>
    /\ appFilters' = computeAppFilters(settings.SupportedApps)
    /\ \E order \in Orders(DOMAIN appFilters'.m) :
          locallySupportedApps' =
              PrepareSupportedApps(dApps, settings.SupportedApps, order)
    /\ appIdx' = Len(dApps) + 1
    /\ pc' = "done"
    /\ built' = TRUE
    /\ last' = NoLast
    /\ UNCHANGED <<errc, peerCtx, wire, pending, hsWaiting, hsGot, hsDropped,
                   blocked, nmsgs, passed, dApps, supportedApps>>

NextSettings == New

SpecSettings == InitSettings /\ [][NextSettings]_vars

(***************************************************************************)
(* SpecApps: PrepareSupportedApps, run on a dictionary and a filter list,  *)
(* one application of the dictionary at a step.                            *)
(***************************************************************************)
InitApps ==
    /\ InitSM
    /\ InitCfgBuilt
    /\ dApps \in SeqsUpTo(DictApps, MaxApps)
    /\ supportedApps \in
          {NilList} \cup {List(l) : l \in SeqsUpTo(FilterStrings, MaxFilters)}
    /\ appFilters = NilMap
    /\ appIdx = 1
    /\ locallySupportedApps = <<>>
    /\ pc = "start"

\* PrepareSupportedApps, up to its loop
PrepareStart ==
    /\ pc = "start"
    /\ locallySupportedApps' = <<>>
    /\ appFilters' = computeAppFilters(supportedApps)
    /\ appIdx' = 1
    /\ pc' = "loop"
    /\ UNCHANGED <<dApps, supportedApps, smVars, cfgVars>>

\* PrepareSupportedApps, one turn of its loop: the map of filters is
\* visited in an order chosen anew
PrepareLoop ==
    /\ pc = "loop"
    /\ appIdx <= Len(dApps)
    /\ \E order \in Orders(DOMAIN appFilters.m) :
          locallySupportedApps' =
              loopBody(locallySupportedApps, dApps[appIdx], appFilters, order)
    /\ appIdx' = appIdx + 1
    /\ UNCHANGED <<dApps, supportedApps, appFilters, pc, smVars, cfgVars>>

\* PrepareSupportedApps, its return
PrepareReturn ==
    /\ pc = "loop"
    /\ appIdx > Len(dApps)
    /\ pc' = "done"
    /\ UNCHANGED <<dApps, supportedApps, appFilters, appIdx,
                   locallySupportedApps, smVars, cfgVars>>

NextApps ==
    \/ PrepareStart
    \/ PrepareLoop
    \/ PrepareReturn

SpecApps == InitApps /\ [][NextApps]_vars

(***************************************************************************)
(* Properties.                                                             *)
(***************************************************************************)
\* the handler functions the last dispatch invoked
CalledHandlers == { last.calls[i].h : i \in 1..Len(last.calls) }

RegOps == {"HandleFunc", "HandleIdx"}

\* C1: a handler registered through Handle, HandleFunc or HandleIdx is
\* stored behind the gate, and no dispatch invokes a host handler on a
\* connection that holds no Peer Context at the time of the dispatch.
C1_HostHandlerNeedsPeerContext ==
    /\ \A n \in AllNames : muxName[n].h \in HostHandlers => muxName[n].gated
    /\ \A i \in AllIdx : muxIdx[i].h \in HostHandlers => muxIdx[i].gated
    /\ (last.op = "ServeDIAM" /\ ~last.ctx)
          => CalledHandlers \cap HostHandlers = {}

\* C1, its case: a message for a registered host handler was dispatched on
\* a connection without Peer Context, and the handler was not invoked.
C1_Witness ==
    /\ last.op = "ServeDIAM"
    /\ last.h \in HostHandlers
    /\ ~last.ctx
    /\ last.calls = <<>>

\* C2: whatever the host registers, the routing entries of the reserved
\* commands are those New installed, a message of a reserved command never
\* invokes a host handler, and a CER is served by the built-in handler.
C2_ReservedEntriesAreNews ==
    /\ \A n \in {"CER", "CEA", "DWR"} : muxName[n] = NewMuxName[n]
    /\ \A i \in {baseCERIdx, baseCEAIdx, baseDWRIdx} : muxIdx[i] = NewMuxIdx[i]
    /\ (last.op = "ServeDIAM" /\ ReservedName(CmdName(last.m)))
          => CalledHandlers \cap HostHandlers = {}
    /\ (last.op = "ServeDIAM" /\ CmdName(last.m) = "CER")
          => /\ last.h = "handleCER"
             /\ last.calls = <<Call("handleCER", last.c, last.m)>>
             /\ last.answer # "none"

\* C2, its case: the host's registration of a reserved command was refused
\* (its report is still queued) and a CER sent afterwards got the built-in
\* handler's success answer.
C2_Witness ==
    /\ last.op = "ServeDIAM"
    /\ CmdName(last.m) = "CER"
    /\ last.answer = "Success"
    /\ errc # <<>>
    /\ errc[1].kind = "overwrite"

C4_WatchdogGated ==
    (last.op = "ServeDIAM" /\ CmdName(last.m) = "DWR")
        => IF last.ctx THEN last.answer = "Success"
           ELSE last.calls = <<>> /\ last.answer = "none"

\* C5: every well-formed CER is served by handleCER and answered with
\* success, on an UNVERIFIED and on a VERIFIED connection alike, and once
\* the handler of such a request has finished the connection is VERIFIED.
C5_WellFormedCERAnswered ==
    /\ (last.op = "ServeDIAM" /\ CmdName(last.m) = "CER" /\ last.m.wf)
          => /\ last.answer = "Success"
             /\ last.calls = <<Call("handleCER", last.c, last.m)>>
    /\ \A c \in Conns : (wire[c].ceaOK > 0 /\ pending[c] = 0) => peerCtx[c]
    /\ last.op = "CERFinish" => peerCtx[last.c]

\* C5, its case: a CER retransmitted on a connection that is already
\* VERIFIED was answered with success again.
C5_Witness ==
    /\ last.op = "ServeDIAM"
    /\ CmdName(last.m) = "CER"
    /\ last.m.wf
    /\ last.ctx
    /\ last.answer = "Success"
    /\ wire[last.c].ceaOK = 2

\* C6: on a connection that holds a Peer Context, a message of a
\* non-reserved command with a registered handler is resolved to a
\* registered handler, which is invoked exactly once with that connection
\* and that message; the gate writes no answer and reports nothing.
C6_GateDelegatesUnchanged ==
    /\ (last.op = "ServeDIAM" /\ last.ctx /\ last.h \in HostHandlers)
          => /\ last.calls = <<Call(last.h, last.c, last.m)>>
             /\ last.answer = "none"
             /\ last.reps = <<>>
    /\ (/\ last.op = "ServeDIAM"
        /\ ~ReservedName(CmdName(last.m))
        /\ {muxName[CmdName(last.m)], muxIdx[IdxOf(last.m)]} # {NoEntry})
          => /\ last.h \in HostHandlers
             /\ last.h \in {muxName[CmdName(last.m)].h, muxIdx[IdxOf(last.m)].h}
             /\ last.ctx => Len(last.calls) = 1

\* C6, its case: after the handshake a registered host handler was
\* invoked for a message.
C6_Witness ==
    /\ last.op = "ServeDIAM"
    /\ last.ctx
    /\ last.h \in HostHandlers
    /\ last.calls = <<Call(last.h, last.c, last.m)>>

\* C7: the dispatch of a gated handler on a connection without Peer
\* Context invokes nothing and changes nothing: no answer on the wire, no
\* report in the error channel, no handshake notification, the connection
\* still UNVERIFIED, the routing tables as they were.
C7_GateDropChangesNothing ==
    [][(last'.op = "ServeDIAM" /\ last'.gated /\ ~last'.ctx)
          => /\ last'.calls = <<>>
             /\ last'.answer = "none"
             /\ last'.reps = <<>>
             /\ ~peerCtx'[last'.c]
             /\ UNCHANGED <<wire, errc, hsBuf, hsWaiting, hsGot, hsDropped,
                            peerCtx, pending, muxName, muxIdx, blocked>>]_vars

\* C7, its case: a gated entry resolved a message on a connection without
\* Peer Context.
C7_Witness ==
    /\ last.op = "ServeDIAM"
    /\ last.gated
    /\ ~last.ctx
    /\ last.h # "none"

\* the last operation was a registration of a reserved command
LastReserved ==
    \/ last.op = "HandleFunc" /\ ReservedName(last.cmd)
    \/ last.op = "HandleIdx" /\ ReservedIdx(last.idx)

\* the report a refused registration makes
LastReport ==
    IF last.op = "HandleFunc" THEN Report("overwrite", last.cmd, NoIdx)
    ELSE Report("overwrite", "-", last.idx)

C10_MalformedCERRefused ==
    /\ [][(last'.op = "ServeDIAM" /\ CmdName(last'.m) = "CER" /\ ~last'.m.wf)
            => /\ last'.answer = "Failure"
               /\ wire' = [wire EXCEPT ![last'.c].ceaFail = @ + 1]
               /\ UNCHANGED <<peerCtx, pending, hsBuf, hsWaiting, hsGot,
                              hsDropped>>]_vars
    /\ [](\A c \in Conns :
            wire[c].ceaOK = 0
              => /\ ~peerCtx[c]
                 /\ hsGot[c] = 0
                 /\ (last.op = "ServeDIAM" /\ last.c = c /\ last.gated)
                       => last.calls = <<>>)

\* C10, its case: a connection whose only CER was malformed got the
\* failure answer, and a message for a gated host handler sent after it
\* was dropped.
C10_Witness ==
    /\ last.op = "ServeDIAM"
    /\ last.gated
    /\ last.h \in HostHandlers
    /\ last.calls = <<>>
    /\ wire[last.c].ceaFail = 1
    /\ wire[last.c].ceaOK = 0
    /\ ~peerCtx[last.c]

\* C15: the handshake state of a connection only moves from UNVERIFIED to
\* VERIFIED: no step, be it a message, a registration or a receive, takes
\* a Peer Context away, and the Peer Context is written only on a
\* connection that holds none, hence at most once per connection.
C15_VerifiedIsTerminal ==
    /\ [][\A c \in Conns : peerCtx[c] => peerCtx'[c]]_vars
    /\ [](last.op = "CERFinish" => (last.wrote <=> ~last.ctx))
    /\ [](\A c \in Conns : hsGot[c] + hsDropped[c] + Len(SelectSeq(hsBuf, LAMBDA d : d = c)) <= 1)

\* C15, its case: a further CER was handled to its end on a connection
\* that already held a Peer Context, which was kept and not written again.
C15_Witness ==
    /\ last.op = "CERFinish"
    /\ last.ctx
    /\ ~last.wrote
    /\ peerCtx[last.c]

C17_GateIsPerConnection ==
    /\ [][last'.op = "CERFinish"
            => \A d \in Conns \ {last'.c} : peerCtx'[d] = peerCtx[d]]_vars
    /\ [](\A c \in Conns :
            (/\ last.op = "ServeDIAM"
             /\ last.c = c
             /\ ~peerCtx[c]
             /\ \E d \in Conns \ {c} : peerCtx[d])
               => /\ CalledHandlers \cap HostHandlers = {}
                  /\ last.gated => last.calls = <<>>)

\* C17, its case: one connection has completed the handshake, and a
\* message for a registered host handler that arrived on the other, still
\* UNVERIFIED, was dropped.
C17_Witness ==
    /\ last.op = "ServeDIAM"
    /\ last.h \in HostHandlers
    /\ ~peerCtx[last.c]
    /\ \E d \in Conns \ {last.c} : peerCtx[d]
    /\ last.calls = <<>>

(***************************************************************************)
(* Properties of PrepareSupportedApps and of New.                          *)
(***************************************************************************)
\* the applications of the dictionary whose ID is not 0
NonZeroApps == SelectSeq(dApps, LAMBDA a : a.ID # 0)

\* the entry for an application, carrying its first vendor
FirstVendorEntry(a) ==
    [ID |-> a.ID, AppType |-> a.Type,
     Vendor |-> IF a.Vendor = <<>> THEN 0 ELSE a.Vendor[1].ID]

\* the entries PrepareSupportedApps makes for a sequence of applications
EntriesOf(apps) == [i \in 1..Len(apps) |-> addApp(apps[i])]

\* the match key and the vendor requirement a filter string stands for
FilterKey(f) ==
    LET parts == Split(f, ".") IN IF Len(parts) > 1 THEN parts[2] ELSE parts[1]

FilterVendor(f) ==
    LET parts == Split(f, ".") IN IF Len(parts) > 1 THEN parts[1] ELSE <<>>

\* a (matchKey, vendorConstraint) pair admits an application
PairAdmits(a, key, vendor) ==
    /\ Itoa(a.ID) = key \/ a.Name = key
    /\ vendor = <<>> \/ (a.Vendor # <<>> /\ a.Vendor[1].Name = vendor)

\* the rearrangements of a sequence
Permutations(l) ==
    { [i \in 1..Len(l) |-> l[o[i]]] : o \in Orders(1..Len(l)) }

\* the filter list is not nil and the call has returned
FilteredDone == pc = "done" /\ ~supportedApps.nil

\* C11: with a nil filter list the result has one entry per application
\* with ID not 0, in dictionary order, each with the ID, the type and the
\* ID of the first vendor of the application (0 without vendor).
C11_NilTakesFirstVendor ==
    (pc = "done" /\ supportedApps.nil) =>
        locallySupportedApps =
            [i \in 1..Len(NonZeroApps) |-> FirstVendorEntry(NonZeroApps[i])]

\* C12: an empty filter list that is not nil yields no supported
\* application whatever the dictionary, while the nil filter list yields
\* one entry for every application with ID not 0.
C12_EmptyFilterListYieldsNone ==
    pc = "done" =>
        /\ (~supportedApps.nil /\ supportedApps.list = <<>>)
              => locallySupportedApps = <<>>
        /\ supportedApps.nil => Len(locallySupportedApps) = Len(NonZeroApps)

\* C12, its case: the call returned nothing for the empty filter list on
\* a dictionary that has an application with ID not 0.
C12_Witness ==
    /\ pc = "done"
    /\ supportedApps = List(<<>>)
    /\ NonZeroApps # <<>>
    /\ locallySupportedApps = <<>>

\* C13: the result is a function of the dictionary and the filter list:
\* whatever order the compiled map is visited in, at each application, the
\* call returns what it returns for any one order, and the result is the
\* entries of a selection of the dictionary's applications in dictionary
\* order.
C13_Deterministic ==
    pc = "done" =>
        /\ \A order \in Orders(DOMAIN appFilters.m) :
              locallySupportedApps =
                  PrepareSupportedApps(dApps, supportedApps, order)
        /\ \E keep \in SUBSET {dApps[i] : i \in 1..Len(dApps)} :
              locallySupportedApps =
                  EntriesOf(SelectSeq(dApps, LAMBDA a : a \in keep))

\* C13, its case: the call has returned an application that two keys of
\* the compiled map match, one of them with a vendor it does not have, so
\* that the visiting order decides which filter is tried first.
C13_Witness ==
    /\ FilteredDone
    /\ locallySupportedApps # <<>>
    /\ \E i \in 1..Len(dApps) :
          \E k1, k2 \in DOMAIN appFilters.m :
              /\ k1 # k2
              /\ dApps[i].ID # 0
              /\ PairAdmits(dApps[i], k1, appFilters.m[k1])
              /\ PairAdmits(dApps[i], k2, <<>>)
              /\ ~PairAdmits(dApps[i], k2, appFilters.m[k2])

\* C14: after New the address list holds exactly the deprecated single
\* address when the caller passed an empty list and a set single address,
\* and is the list the caller passed otherwise; the single field is left
\* as passed.
C14_LegacyAddressPromoted ==
    built =>
        /\ settings.HostIPAddress = passed.HostIPAddress
        /\ (passed.HostIPAddresses = <<>> /\ passed.HostIPAddress # <<>>)
              => settings.HostIPAddresses = <<passed.HostIPAddress>>
        /\ (passed.HostIPAddresses # <<>> \/ passed.HostIPAddress = <<>>)
              => settings.HostIPAddresses = passed.HostIPAddresses

\* C14, its case: New ran on settings with only the deprecated field set
\* and the list now holds that address.
C14_Witness ==
    /\ built
    /\ last.op = "New"
    /\ passed.HostIPAddresses = <<>>
    /\ passed.HostIPAddress # <<>>
    /\ settings.HostIPAddresses = <<passed.HostIPAddress>>

\* C18: with a filter list that is not nil, the result is the entries, in
\* dictionary order, of exactly the applications whose ID is not 0 and
\* that some pair of the compiled map admits: its key is the ID in decimal
\* or the name, and its vendor is empty or the name of the application's
\* first vendor.
C18_IncludedIffSomePairAdmits ==
    FilteredDone =>
        locallySupportedApps =
            EntriesOf(SelectSeq(dApps, LAMBDA a :
                /\ a.ID # 0
                /\ \E key \in DOMAIN appFilters.m :
                      PairAdmits(a, key, appFilters.m[key])))

\* C18, its case: of two applications whose ID or name a filter key
\* matches, the call kept one and left out the other, whose first vendor
\* is not the one required.
C18_Witness ==
    /\ FilteredDone
    /\ Len(locallySupportedApps) = 1
    /\ Len(dApps) = 2
    /\ \A i \in 1..2 : dApps[i].ID # 0
    /\ \E key \in DOMAIN appFilters.m :
          /\ appFilters.m[key] # <<>>
          /\ \A i \in 1..2 : PairAdmits(dApps[i], key, <<>>)
          /\ \E i \in 1..2 : ~PairAdmits(dApps[i], key, appFilters.m[key])

\* C19: the compiled map has one entry per match key of the filter list,
\* holding the vendor requirement of the key's last occurrence, and the
\* result is made of the applications that those last occurrences admit:
\* one that only an earlier occurrence admits is left out.
C19_LastOccurrenceWins ==
    (pc # "start" /\ ~supportedApps.nil) =>
        LET l == supportedApps.list
            lastOf(i) == \A j \in (i + 1)..Len(l) : FilterKey(l[j]) # FilterKey(l[i])
        IN  /\ DOMAIN appFilters.m = {FilterKey(l[i]) : i \in 1..Len(l)}
            /\ \A i \in 1..Len(l) :
                  lastOf(i) => appFilters.m[FilterKey(l[i])] = FilterVendor(l[i])
            /\ pc = "done" =>
                  locallySupportedApps =
                      EntriesOf(SelectSeq(dApps, LAMBDA a :
                          /\ a.ID # 0
                          /\ \E i \in 1..Len(l) :
                                /\ lastOf(i)
                                /\ PairAdmits(a, FilterKey(l[i]), FilterVendor(l[i]))))

\* C19, its case: a match key occurs twice with different vendors, the
\* dictionary has an application that the earlier occurrence admits and
\* the later does not, and the call returned without it.
C19_Witness ==
    /\ FilteredDone
    /\ locallySupportedApps = <<>>
    /\ LET l == supportedApps.list
       IN  /\ Len(l) = 2
           /\ FilterKey(l[1]) = FilterKey(l[2])
           /\ FilterVendor(l[1]) # FilterVendor(l[2])
           /\ \E i \in 1..Len(dApps) :
                 /\ dApps[i].ID # 0
                 /\ PairAdmits(dApps[i], FilterKey(l[1]), FilterVendor(l[1]))

\* what PrepareSupportedApps returns for every rearrangement of the filter
\* list is what it returned for the list as given
SameForEveryPermutation ==
    \A l \in Permutations(supportedApps.list) :
        \A order \in Orders(DOMAIN computeAppFilters(List(l)).m) :
            PrepareSupportedApps(dApps, List(l), order) = locallySupportedApps

\* C20, as claimed: the result is the same for any permutation of the
\* filter list, for every dictionary and every filter list.
C20_FilterOrderIrrelevant == FilteredDone => SameForEveryPermutation

\* no match key occurs in the filter list with two different vendor
\* requirements
NoConflictingKey(l) ==
    \A i, j \in 1..Len(l) :
        FilterKey(l[i]) = FilterKey(l[j]) => FilterVendor(l[i]) = FilterVendor(l[j])

\* C20, amended: the result is the same for any permutation of a filter
\* list in which no match key occurs with two different vendor
\* requirements.
C20_FilterOrderIrrelevantWithoutConflict ==
    (FilteredDone /\ NoConflictingKey(supportedApps.list))
        => SameForEveryPermutation

\* C20, its case: the call returned an application for a list of two
\* filters with different keys, of which only one admits it.
C20_Witness ==
    /\ FilteredDone
    /\ locallySupportedApps # <<>>
    /\ LET l == supportedApps.list
       IN  /\ Len(l) = 2
           /\ FilterKey(l[1]) # FilterKey(l[2])
           /\ \E i \in 1..Len(dApps) :
                 /\ dApps[i].ID # 0
                 /\ PairAdmits(dApps[i], FilterKey(l[2]), FilterVendor(l[2]))
                 /\ ~PairAdmits(dApps[i], FilterKey(l[1]), FilterVendor(l[1]))

=============================================================================
